---- MODULE Spec2Model ----
(***************************************************************************)
(* Model of the comic-panning viewer (src/src/ComicBookPage.ts): the       *)
(* bootstrap (Setup, window.SetActiveFrame), the ComicBookPage instance    *)
(* (frame registry, current frame, duration), the geometry of              *)
(* calcFramePositionAndSize, the keyframes built by                        *)
(* renderCurrentComicFrame and the tween engine's set of running           *)
(* animations.                                                             *)
(*                                                                         *)
(* JavaScript numbers are modelled as exact rationals extended with NaN,   *)
(* +Infinity, -Infinity and null (rounding and the sign of zero are not    *)
(* modelled).  Strings that the code parses or normalises (element ids,    *)
(* style values) are sequences of one-character strings.                   *)
(***************************************************************************)
EXTENDS Integers, Sequences, FiniteSets, TLC

\* ------------------------------------------------------------------------
\* Program constants (ComicBookPage.ts:6-9).  panningFactor is 1.75 = 7/4.
panningFactorNum == 7
panningFactorDen == 4
focusDuration == 750
MAX_ZOOM_VALUE == 3
framePadding == 10

\* ------------------------------------------------------------------------
\* Bounds of the model.
MaxEvals == 2
MaxAnims == 2
MaxMutations == 1

\* ------------------------------------------------------------------------
\* Numbers.
Abs(i) == IF i < 0 THEN -i ELSE i
Sign(i) == IF i < 0 THEN -1 ELSE IF i = 0 THEN 0 ELSE 1

RECURSIVE GCD(_, _)
GCD(a, b) == IF b = 0 THEN a ELSE GCD(b, a % b)

NaN == [k |-> "nan", n |-> 0, d |-> 1]
Null == [k |-> "null", n |-> 0, d |-> 1]
PosInf == [k |-> "inf", n |-> 1, d |-> 1]
NegInf == [k |-> "inf", n |-> -1, d |-> 1]
Inf(s) == IF s < 0 THEN NegInf ELSE PosInf

\* The rational n/d, d # 0, in lowest terms with a positive denominator.
Rat(n, d) ==
    IF d = 1 THEN [k |-> "num", n |-> n, d |-> 1]
    ELSE LET g == GCD(Abs(n), Abs(d))
             s == IF d < 0 THEN -1 ELSE 1
         IN  [k |-> "num", n |-> (s * n) \div g, d |-> (s * d) \div g]

Num(i) == [k |-> "num", n |-> i, d |-> 1]

\* ToNumber: null becomes 0 in arithmetic.
ToNumber(x) == IF x.k = "null" THEN Num(0) ELSE x

IsNaN(x) == x.k = "nan"
IsFinite(x) == x.k = "num"

RNeg(x) ==
    LET a == ToNumber(x)
    IN  IF a.k = "nan" THEN NaN
        ELSE IF a.k = "inf" THEN Inf(-a.n)
        ELSE Rat(-a.n, a.d)

RAdd(x, y) ==
    LET a == ToNumber(x)
        b == ToNumber(y)
    IN  IF a.k = "nan" \/ b.k = "nan" THEN NaN
        ELSE IF a.k = "inf" /\ b.k = "inf" THEN (IF a.n = b.n THEN a ELSE NaN)
        ELSE IF a.k = "inf" THEN a
        ELSE IF b.k = "inf" THEN b
        ELSE Rat(a.n * b.d + b.n * a.d, a.d * b.d)

RSub(x, y) == RAdd(x, RNeg(y))

RMul(x, y) ==
    LET a == ToNumber(x)
        b == ToNumber(y)
    IN  IF a.k = "nan" \/ b.k = "nan" THEN NaN
        ELSE IF a.k = "inf" \/ b.k = "inf"
             THEN (IF a.n = 0 \/ b.n = 0 THEN NaN ELSE Inf(Sign(a.n) * Sign(b.n)))
        ELSE Rat(a.n * b.n, a.d * b.d)

RDiv(x, y) ==
    LET a == ToNumber(x)
        b == ToNumber(y)
    IN  IF a.k = "nan" \/ b.k = "nan" THEN NaN
        ELSE IF a.k = "inf" /\ b.k = "inf" THEN NaN
        ELSE IF a.k = "inf" THEN Inf(a.n * (IF b.n < 0 THEN -1 ELSE 1))
        ELSE IF b.k = "inf" THEN Num(0)
        ELSE IF b.n = 0 THEN (IF a.n = 0 THEN NaN ELSE Inf(a.n))
        ELSE Rat(a.n * b.d, a.d * b.n)

\* x < y as JavaScript evaluates it: false when either side is NaN.
RLt(x, y) ==
    LET a == ToNumber(x)
        b == ToNumber(y)
    IN  IF a.k = "nan" \/ b.k = "nan" THEN FALSE
        ELSE IF a.k = "inf" /\ b.k = "inf" THEN a.n < b.n
        ELSE IF a.k = "inf" THEN a.n < 0
        ELSE IF b.k = "inf" THEN b.n > 0
        ELSE a.n * b.d < b.n * a.d

RGt(x, y) == RLt(y, x)
RLe(x, y) == (~IsNaN(ToNumber(x))) /\ (~IsNaN(ToNumber(y))) /\ ~RLt(y, x)
RGe(x, y) == RLe(y, x)

\* Math.min(a, b, c): NaN if any argument is NaN.
MathMin(a, b, c) ==
    IF IsNaN(a) \/ IsNaN(b) \/ IsNaN(c) THEN NaN
    ELSE LET ab == IF RLt(b, a) THEN b ELSE a
         IN  IF RLt(c, ab) THEN c ELSE ab

\* ------------------------------------------------------------------------
\* Strings.
LowerChar(c) ==
    CASE c = "A" -> "a" [] c = "B" -> "b" [] c = "C" -> "c" [] c = "D" -> "d"
      [] c = "E" -> "e" [] c = "F" -> "f" [] c = "G" -> "g" [] c = "P" -> "p"
      [] c = "X" -> "x" [] c = "Z" -> "z"
      [] OTHER -> c

toLocaleLowerCase(s) == [i \in 1..Len(s) |-> LowerChar(s[i])]

DigitChars == {"0", "1", "2", "3", "4", "5", "6", "7", "8", "9"}

DigitVal(c) ==
    CASE c = "0" -> 0 [] c = "1" -> 1 [] c = "2" -> 2 [] c = "3" -> 3
      [] c = "4" -> 4 [] c = "5" -> 5 [] c = "6" -> 6 [] c = "7" -> 7
      [] c = "8" -> 8 [] c = "9" -> 9

\* value.replace(/px$/, '')
StripPx(s) ==
    IF Len(s) >= 2 /\ s[Len(s) - 1] = "p" /\ s[Len(s)] = "x"
    THEN SubSeq(s, 1, Len(s) - 2)
    ELSE s

RECURSIVE SkipSpaces(_)
SkipSpaces(s) == IF Len(s) > 0 /\ s[1] = " " THEN SkipSpaces(Tail(s)) ELSE s

\* The value of the longest prefix of digits of s, continuing from acc.
RECURSIVE DigitRun(_, _)
DigitRun(s, acc) ==
    IF Len(s) > 0 /\ s[1] \in DigitChars
    THEN DigitRun(Tail(s), 10 * acc + DigitVal(s[1]))
    ELSE acc

\* parseInt(s, 10): leading whitespace, an optional sign, then digits; NaN
\* when no digit follows.
parseInt(s) ==
    LET t == SkipSpaces(s)
        neg == Len(t) > 0 /\ t[1] = "-"
        u == IF Len(t) > 0 /\ t[1] \in {"-", "+"} THEN Tail(t) ELSE t
    IN  IF Len(u) > 0 /\ u[1] \in DigitChars
        THEN Num((IF neg THEN -1 ELSE 1) * DigitRun(u, 0))
        ELSE NaN

\* ------------------------------------------------------------------------
\* Optional values: <<>> is undefined, <<v>> is the value v.
Undefined == <<>>
Some(v) == <<v>>
IsDefined(o) == Len(o) > 0
Val(o) == o[1]

\* ------------------------------------------------------------------------
\* Geometry.

\* ensureComicFrame() without a frame: the whole page.
ensureComicFrame(canvasSize) ==
    [left |-> Num(0), top |-> Num(0),
     width |-> canvasSize.width, height |-> canvasSize.height]

\* One style property as extractComicFrame / extractCanvasSize read it: the
\* default 0 when the property is missing, else parseInt of the value
\* without a trailing "px".
StyleNumber(value) ==
    IF Len(value) = 0 THEN Num(0) ELSE parseInt(StripPx(value))

extractComicFrame(area) ==
    [height |-> StyleNumber(area.style.height),
     width |-> StyleNumber(area.style.width),
     left |-> StyleNumber(area.style.left),
     top |-> StyleNumber(area.style.top)]

\* JSON.stringify / JSON.parse of a CanvasSize: a number that is not finite
\* is written as null.
JSONNumber(x) == IF IsFinite(ToNumber(x)) /\ x.k # "null" THEN x ELSE Null
JSONRoundTrip(size) ==
    [height |-> JSONNumber(size.height), width |-> JSONNumber(size.width)]

\* extractCanvasSize: the cached value when the image carries one, else the
\* size parsed from the image's style.
StyleCanvasSize(img) ==
    [height |-> StyleNumber(img.style.height),
     width |-> StyleNumber(img.style.width)]

extractCanvasSize(img) ==
    IF IsDefined(img.cache) THEN Val(img.cache) ELSE StyleCanvasSize(img)

makeFramePosition(frame) ==
    [width |-> frame.width,
     height |-> frame.height,
     topLeft |-> [x |-> frame.left, y |-> frame.top],
     bottomRight |-> [x |-> RAdd(frame.left, frame.width),
                      y |-> RAdd(frame.top, frame.height)]]

\* The scale calcFramePositionAndSize applies.
ZoomLimit == Num(MAX_ZOOM_VALUE)

CalcScale(frame, cw, ch) ==
    LET clientWidth == Num(cw - framePadding * 2)
        clientHeight == Num(ch - framePadding * 2)
    IN  MathMin(ZoomLimit,
                RDiv(clientWidth, frame.width),
                RDiv(clientHeight, frame.height))

Centering(available, scaledFrameSize) ==
    IF RLt(scaledFrameSize, available)
    THEN RDiv(RSub(available, scaledFrameSize), Num(2))
    ELSE Num(0)

calcFramePositionAndSize(frame, canvasSize, cw, ch) ==
    LET clientWidth == Num(cw - framePadding * 2)
        clientHeight == Num(ch - framePadding * 2)
        scale == CalcScale(frame, cw, ch)
        scaledImageWidth == RMul(canvasSize.width, scale)
        scaledImageHeight == RMul(canvasSize.height, scale)
        scaledFrameX0 == RNeg(RMul(frame.topLeft.x, scale))
        scaledFrameY0 == RNeg(RMul(frame.topLeft.y, scale))
        scaledFrameWidth == RMul(frame.width, scale)
        scaledFrameHeight == RMul(frame.height, scale)
        xCentering == Centering(clientWidth, scaledFrameWidth)
        yCentering == Centering(clientHeight, scaledFrameHeight)
    IN  [top |-> RAdd(RAdd(yCentering, scaledFrameY0), Num(framePadding)),
         left |-> RAdd(RAdd(xCentering, scaledFrameX0), Num(framePadding)),
         width |-> scaledImageWidth,
         height |-> scaledImageHeight]

panningFactor == Rat(panningFactorNum, panningFactorDen)

shouldDoVerticalPanningInclusive(framePosition, ch) ==
    /\ RGe(RDiv(framePosition.height, framePosition.width), panningFactor)
    /\ RGe(framePosition.height, RMul(Num(ch), panningFactor))

shouldDoVerticalPanning(framePosition, ch) ==
    /\ RGe(RDiv(framePosition.height, framePosition.width), panningFactor)
    /\ RGt(framePosition.height, RMul(Num(ch), panningFactor))

shouldDoHorizontalPanning(framePosition, cw) ==
    /\ RGe(RDiv(framePosition.width, framePosition.height), panningFactor)
    /\ RGt(framePosition.width, RMul(Num(cw), panningFactor))

VerticalPositionsNoPadding(frame) ==
    LET topHalfFrame == [frame EXCEPT !.height = frame.width]
        pan == makeFramePosition(topHalfFrame)
    IN  <<pan,
          [pan EXCEPT !.topLeft.y = RAdd(@, RSub(frame.height, frame.width))]>>

\* The positions renderCurrentComicFrame computes, in keyframe order: the
\* full frame, then (when panning) the half frame and the final position.
VerticalPositions(frame) ==
    LET topHalfFrame == [frame EXCEPT !.height = frame.width]
        pan == makeFramePosition(topHalfFrame)
    IN  <<pan,
          [pan EXCEPT !.topLeft.y =
              RAdd(@, RAdd(RSub(frame.height, frame.width), Num(framePadding)))]>>

HorizontalPositions(frame) ==
    LET leftHalfFrame == [frame EXCEPT !.width = frame.height]
        pan == makeFramePosition(leftHalfFrame)
    IN  <<pan,
          [pan EXCEPT !.topLeft.x =
              RAdd(@, RAdd(RSub(frame.width, frame.height), Num(framePadding)))]>>

RenderPositionsVerticalOnly(frame, cw, ch) ==
    LET framePosition == makeFramePosition(frame)
    IN  <<framePosition>> \o
        (IF shouldDoVerticalPanning(framePosition, ch)
            THEN VerticalPositions(frame)
         ELSE <<>>)

RenderPositions(frame, cw, ch) ==
    LET framePosition == makeFramePosition(frame)
    IN  <<framePosition>> \o
        (IF shouldDoVerticalPanning(framePosition, ch)
            THEN VerticalPositions(frame)
         ELSE IF shouldDoHorizontalPanning(framePosition, cw)
            THEN HorizontalPositions(frame)
         ELSE <<>>)

\* duration of the last keyframe: this._duration ?? 0 - 2 * focusDuration,
\* where ?? binds weaker than the subtraction.
FinalDuration(duration) ==
    IF IsDefined(duration) THEN Val(duration) ELSE 0 - 2 * focusDuration

Keyframe(position, canvasSize, cw, ch, duration, opacity) ==
    [pos |-> calcFramePositionAndSize(position, canvasSize, cw, ch),
     duration |-> duration,
     opacity |-> opacity]

RenderKeyframes(ps, duration, canvasSize, cw, ch) ==
    <<Keyframe(ps[1], canvasSize, cw, ch, focusDuration, Some(1))>> \o
    (IF Len(ps) = 3
     THEN <<Keyframe(ps[2], canvasSize, cw, ch, focusDuration, Undefined),
            Keyframe(ps[3], canvasSize, cw, ch, FinalDuration(duration), Undefined)>>
     ELSE <<>>)

\* ------------------------------------------------------------------------
\* The documents the viewer is loaded into.  A style value is the text
\* style.getPropertyValue returns ("" when the property is not declared).
NoText == <<>>
Px0 == <<"0", "p", "x">>
Px100 == <<"1", "0", "0", "p", "x">>
Px200 == <<"2", "0", "0", "p", "x">>
Px300 == <<"3", "0", "0", "p", "x">>
Px400 == <<"4", "0", "0", "p", "x">>
Px500 == <<"5", "0", "0", "p", "x">>
Px700 == <<"7", "0", "0", "p", "x">>
Px1000 == <<"1", "0", "0", "0", "p", "x">>
Px1750 == <<"1", "7", "5", "0", "p", "x">>
Px2000 == <<"2", "0", "0", "0", "p", "x">>

IdPage == <<"p", "a", "g", "e">>
IdF1 == <<"f", "1">>
IdF2 == <<"F", "2">>
IdF3 == <<"f", "3">>

Style(left, top, width, height) ==
    [left |-> left, top |-> top, width |-> width, height |-> height]

Div(id, style) == [id |-> id, style |-> style, active |-> FALSE]

Img(id, width, height) ==
    [id |-> id, style |-> [width |-> width, height |-> height],
     cache |-> Undefined, wrapped |-> FALSE, active |-> FALSE,
     pos |-> Undefined]

\* A page of 1000 x 2000 with a tall frame, a frame whose id is written in
\* upper case and a frame without any style.
StoryDivs ==
    <<Div(IdF1, Style(Px0, Px0, Px500, Px1750)),
      Div(IdF2, Style(Px100, Px200, Px400, Px700)),
      Div(IdF3, Style(NoText, NoText, NoText, NoText))>>

\* The story page; a page with two images and no frame; a page without
\* image.
Documents ==
    { [imgs |-> <<Img(IdPage, Px1000, Px2000)>>, divs |-> StoryDivs],
      [imgs |-> <<Img(IdPage, Px1000, Px2000), Img(IdPage, Px1000, Px2000)>>,
       divs |-> <<>>],
      [imgs |-> <<>>, divs |-> SubSeq(StoryDivs, 1, 1)] }

\* Sizes of the container element (clientWidth, clientHeight).
ClientSizes == { [w |-> 500, h |-> 500], [w |-> 20, h |-> 20] }

\* Arguments of window.SetActiveFrame.
Call(id, dur) == [id |-> id, dur |-> dur]
Calls ==
    { Call(IdF1, 2000), Call(<<"F", "1">>, 1000), Call(<<"#", "f", "1">>, 2000),
      Call(IdF2, 2000), Call(IdF3, 1000), Call(IdPage, 2000),
      Call(<<"z", "z">>, 1000) }

\* The frame elements a script rewrites, and the texts it writes into their
\* style.
MutableDivs == { 1 }
MutationTexts == { Px300 }

\* ------------------------------------------------------------------------
\* State.
VARIABLES
    readyState,       \* document.readyState
    evals,            \* number of evaluations of the viewer script
    installed,        \* window.SetActiveFrame is defined
    listeners,        \* Setup functions registered for DOMContentLoaded
    timers,           \* Setup calls pending on window.setTimeout
    dispatching,      \* listeners the running DOMContentLoaded still calls
    imgs,             \* the img elements of the document, in order
    divs,             \* the body > div elements, in order
    mutations,        \* number of changes scripts made to the frame elements
    client,           \* clientWidth / clientHeight of the container
    comicBookPage,    \* window.comicBookPage is set
    constructed,      \* number of ComicBookPage instances constructed
    resizeListeners,  \* resize listeners added to the window
    _comicImg,         \* _comicImg: index of the instance's image
    _canvasSize,       \* _canvasSize
    _areas,            \* _areas
    _currentFrame,     \* _currentFrame
    _duration,         \* _duration
    animeInstance,    \* animeInstance: id of the animation last started
    anims,            \* the tween engine's running animations
    nextAnim,         \* number of animations started so far
    parses,           \* number of times the registry was parsed from the DOM
    lastCall,         \* the last call, resize or document change, and what
                      \* it did to the registry and the engine
    probe             \* inputs and results of the geometry functions

vars ==
    <<readyState, evals, installed, listeners, timers, dispatching, imgs,
      divs, mutations, client, comicBookPage, constructed, resizeListeners,
      _comicImg, _canvasSize, _areas, _currentFrame, _duration, animeInstance,
      anims, nextAnim, parses, lastCall, probe>>

bootVars == <<readyState, evals, installed, listeners, timers, dispatching>>
instVars ==
    <<comicBookPage, constructed, resizeListeners, _comicImg, _canvasSize>>
selfVars ==
    <<_areas, _currentFrame, _duration, animeInstance, anims, nextAnim, parses>>

NoCall ==
    [op |-> "none", lookups |-> 0, removes |-> 0, cancelled |-> 0, starts |-> 0]
NoProbe == [on |-> FALSE]
NoSize == [width |-> Num(0), height |-> Num(0)]

Init ==
    /\ readyState \in {"loading", "complete"}
    /\ evals = 0
    /\ installed = FALSE
    /\ listeners = 0
    /\ timers = 0
    /\ dispatching = 0
    /\ \E doc \in Documents : imgs = doc.imgs /\ divs = doc.divs
    /\ mutations = 0
    /\ client \in ClientSizes
    /\ comicBookPage = FALSE
    /\ constructed = 0
    /\ resizeListeners = 0
    /\ _comicImg = 0
    /\ _canvasSize = NoSize
    /\ _areas = Undefined
    /\ _currentFrame = Undefined
    /\ _duration = Undefined
    /\ animeInstance = Undefined
    /\ anims = {}
    /\ nextAnim = 0
    /\ parses = 0
    /\ lastCall = NoCall
    /\ probe = NoProbe

\* ------------------------------------------------------------------------
\* The ComicBookPage instance.  Its methods are functions of a record of
\* the fields they may change (self), together with what the call did to
\* the registry and the tween engine: reads of the registry (lookups), calls
\* of animejs.remove (removes), running animations those calls ended
\* (cancelled) and animations started (starts).
Self ==
    [areas |-> _areas, frame |-> _currentFrame, dur |-> _duration,
     animeInstance |-> animeInstance, anims |-> anims, nextAnim |-> nextAnim,
     parses |-> parses, lookups |-> 0, removes |-> 0, cancelled |-> 0,
     starts |-> 0]

Commit(self) ==
    /\ _areas' = self.areas
    /\ _currentFrame' = self.frame
    /\ _duration' = self.dur
    /\ animeInstance' = self.animeInstance
    /\ anims' = self.anims
    /\ nextAnim' = self.nextAnim
    /\ parses' = self.parses

Hash == <<"#">>

\* The (key, frame) pairs the comicAreas getter sets, in the order it sets
\* them: the image's id, then each body > div, each with and without "#".
AreaEntries ==
    LET canvasFrame == ensureComicFrame(_canvasSize)
        imgId == imgs[_comicImg].id
        DivEntries[i \in 0..Len(divs)] ==
            IF i = 0 THEN <<>>
            ELSE LET frame == extractComicFrame(divs[i])
                 IN  DivEntries[i - 1] \o
                     <<[key |-> divs[i].id, frame |-> frame],
                       [key |-> Hash \o divs[i].id, frame |-> frame]>>
    IN  <<[key |-> imgId, frame |-> canvasFrame],
          [key |-> Hash \o imgId, frame |-> canvasFrame]>>
        \o DivEntries[Len(divs)]

\* The Map those set() calls build: a later set() of a key wins.
MapOf(entries) ==
    [key \in {entries[i].key : i \in 1..Len(entries)} |->
        LET last == CHOOSE i \in 1..Len(entries) :
                        /\ entries[i].key = key
                        /\ \A j \in (i + 1)..Len(entries) : entries[j].key # key
        IN  entries[last].frame]

comicAreasReparse(self) ==
    [self EXCEPT !.areas = Some(MapOf(AreaEntries)),
                 !.parses = @ + 1,
                 !.lookups = @ + 1]

\* get comicAreas(): parse the document on the first read only.
comicAreas(self) ==
    IF IsDefined(self.areas)
    THEN [self EXCEPT !.lookups = @ + 1]
    ELSE [self EXCEPT !.areas = Some(MapOf(AreaEntries)),
                      !.parses = @ + 1,
                      !.lookups = @ + 1]

AnimeRemoveNothing(running, target) == running

\* animejs.remove(target): the target leaves every running animation; an
\* animation left without a target stops.
AnimeRemove(running, target) == {a \in running : a.target # target}

\* animejs({targets, keyframes, easing}): a new animation starts to play.
Anime(id, target, keyframes, positions) ==
    [id |-> id, target |-> target, keyframes |-> keyframes,
     positions |-> positions]

renderCurrentComicFrame(self, size) ==
    IF ~IsDefined(self.frame) \/ ~IsDefined(self.dur)
    THEN self
    ELSE LET id == self.nextAnim + 1
             positions == RenderPositions(Val(self.frame), size.w, size.h)
             keyframes == RenderKeyframes(positions, self.dur,
                                          _canvasSize, size.w, size.h)
         IN  [self EXCEPT
                 !.anims = AnimeRemove(self.anims, _comicImg) \cup
                           {Anime(id, _comicImg, keyframes, positions)},
                 !.animeInstance = Some(id),
                 !.nextAnim = id,
                 !.removes = @ + 1,
                 !.cancelled = @ + Cardinality(self.anims) -
                     Cardinality(AnimeRemove(self.anims, _comicImg)),
                 !.starts = @ + 1]

\* this.comicAreas.has(id.toLocaleLowerCase())
HasFrame(registry, id) == toLocaleLowerCase(id) \in DOMAIN registry

SetCurrentFrameKeepsDuration(self, id, dur, size) ==
    LET s1 == comicAreas(self)
        registry == Val(s1.areas)
    IN  IF HasFrame(registry, id)
        THEN renderCurrentComicFrame(
                 [s1 EXCEPT !.frame = Some(registry[toLocaleLowerCase(id)]),
                            !.lookups = @ + 1],
                 size)
        ELSE s1

SetCurrentFrameStoresFirst(self, id, dur, size) ==
    LET s1 == [comicAreas(self) EXCEPT !.dur = Some(dur)]
        registry == Val(s1.areas)
    IN  IF HasFrame(registry, id)
        THEN renderCurrentComicFrame(
                 [s1 EXCEPT !.frame = Some(registry[toLocaleLowerCase(id)]),
                            !.lookups = @ + 1],
                 size)
        ELSE s1

SetCurrentFrame(self, id, dur, size) ==
    LET s1 == comicAreas(self)
        registry == Val(s1.areas)
    IN  IF HasFrame(registry, id)
        THEN renderCurrentComicFrame(
                 [s1 EXCEPT !.frame = Some(registry[toLocaleLowerCase(id)]),
                            !.dur = Some(dur),
                            !.lookups = @ + 1],
                 size)
        ELSE s1

onResizeStaleSize(self, size) == renderCurrentComicFrame(self, client)

onResize(self, size) == renderCurrentComicFrame(self, size)

\* ------------------------------------------------------------------------
\* Bootstrap.

\* document.querySelector("body > img"): the first image that is a child of
\* the body (an image the constructor wrapped in its section is not), 0 when
\* there is none.
QueryBodyImg ==
    LET free == {i \in 1..Len(imgs) : ~imgs[i].wrapped}
    IN  IF free = {} THEN 0 ELSE CHOOSE i \in free : \A j \in free : i <= j

\* new ComicBookPage(window).  Without a body > img the constructor throws
\* on line 32 and nothing is assigned.  The position the constructor writes
\* into the image's style is kept in pos; extractCanvasSize never reads the
\* style again because the cache attribute is written first.
Construct ==
    LET i == QueryBodyImg
    IN  IF i = 0
        THEN UNCHANGED <<imgs, instVars, selfVars>>
        ELSE LET size == extractCanvasSize(imgs[i])
                 cache == IF IsDefined(imgs[i].cache) THEN imgs[i].cache
                          ELSE Some(JSONRoundTrip(size))
                 pos == calcFramePositionAndSize(
                            makeFramePosition(ensureComicFrame(size)),
                            size, client.w, client.h)
             IN  /\ imgs' = [imgs EXCEPT ![i].wrapped = TRUE,
                                         ![i].cache = cache,
                                         ![i].pos = Some(pos)]
                 /\ _comicImg' = i
                 /\ _canvasSize' = size
                 /\ _areas' = Undefined
                 /\ _currentFrame' = Undefined
                 /\ _duration' = Undefined
                 /\ animeInstance' = Undefined
                 /\ resizeListeners' = resizeListeners + 1
                 /\ constructed' = constructed + 1
                 /\ comicBookPage' = TRUE
                 /\ UNCHANGED <<anims, nextAnim, parses>>

SetupUnguarded(registered) ==
    /\ listeners' = IF registered THEN listeners - 1 ELSE listeners
    /\ Construct

\* Setup(), called by the DOMContentLoaded listener (registered = TRUE) or
\* by the timer (registered = FALSE).
Setup(registered) ==
    IF comicBookPage
    THEN UNCHANGED <<listeners, imgs, instVars, selfVars>>
    ELSE /\ listeners' = IF registered THEN listeners - 1 ELSE listeners
         /\ Construct

\* The viewer script is evaluated (lines 407-418).
EvalScript ==
    /\ dispatching = 0
    /\ evals < MaxEvals
    /\ evals' = evals + 1
    /\ installed' = TRUE
    /\ IF readyState # "loading"
       THEN timers' = timers + 1 /\ UNCHANGED listeners
       ELSE listeners' = listeners + 1 /\ UNCHANGED timers
    /\ UNCHANGED <<readyState, dispatching, imgs, divs, mutations, client,
                   instVars, selfVars, lastCall, probe>>

\* The document finishes parsing: DOMContentLoaded calls every registered
\* listener, one after the other, before anything else runs.
DOMContentLoaded ==
    /\ readyState = "loading"
    /\ dispatching = 0
    /\ readyState' = "complete"
    /\ dispatching' = listeners
    /\ UNCHANGED <<evals, installed, listeners, timers, imgs, divs, mutations,
                   client, instVars, selfVars, lastCall, probe>>

DispatchListener ==
    /\ dispatching > 0
    /\ dispatching' = dispatching - 1
    /\ Setup(TRUE)
    /\ UNCHANGED <<readyState, evals, installed, timers, divs, mutations,
                   client, lastCall, probe>>

TimerFire ==
    /\ dispatching = 0
    /\ timers > 0
    /\ timers' = timers - 1
    /\ Setup(FALSE)
    /\ UNCHANGED <<readyState, evals, installed, dispatching, divs, mutations,
                   client, lastCall, probe>>

\* ------------------------------------------------------------------------
\* window.SetActiveFrame and the events of the page.

\* id.replace("#", ""): the first "#" is removed.
RemoveFirstHash(s) ==
    LET at == {i \in 1..Len(s) : s[i] = "#"}
    IN  IF at = {} THEN s
        ELSE LET i == CHOOSE j \in at : \A k \in at : j <= k
             IN  SubSeq(s, 1, i - 1) \o SubSeq(s, i + 1, Len(s))

\* "#" followed by name is a selector querySelector accepts (otherwise it
\* throws a SyntaxError): name is a non-empty identifier.
ValidIdSelector(name) ==
    /\ Len(name) > 0
    /\ name[1] \notin DigitChars
    /\ \A i \in 1..Len(name) : name[i] \notin {"#", " ", ".", ">"}

\* document.querySelector("#name"): the first element with that id, in
\* document order (the images, then the frame elements).
QueryById(name) ==
    LET is == {i \in 1..Len(imgs) : imgs[i].id = name}
        ds == {i \in 1..Len(divs) : divs[i].id = name}
    IN  IF is # {} THEN [kind |-> "img", at |-> CHOOSE i \in is : \A j \in is : i <= j]
        ELSE IF ds # {} THEN [kind |-> "div", at |-> CHOOSE i \in ds : \A j \in ds : i <= j]
        ELSE [kind |-> "none", at |-> 0]

\* Lines 410-411: every "active" class is removed, then the element the
\* selector finds is marked.
MarkActive(id) ==
    LET name == RemoveFirstHash(id)
        hit == IF ValidIdSelector(name) THEN QueryById(name)
               ELSE [kind |-> "none", at |-> 0]
    IN  /\ imgs' = [i \in 1..Len(imgs) |->
                       [imgs[i] EXCEPT !.active = (hit.kind = "img" /\ hit.at = i)]]
        /\ divs' = [i \in 1..Len(divs) |->
                       [divs[i] EXCEPT !.active = (hit.kind = "div" /\ hit.at = i)]]

SetActiveFrame(id, dur) ==
    /\ installed
    /\ dispatching = 0
    /\ \E self \in {IF comicBookPage
                    THEN SetCurrentFrame(Self, id, dur, client)
                    ELSE Self} :
           /\ self.nextAnim <= MaxAnims
           /\ Commit(self)
           /\ lastCall' = [op |-> "SetActiveFrame",
                           lookups |-> self.lookups,
                           removes |-> self.removes,
                           cancelled |-> self.cancelled,
                           starts |-> self.starts]
    /\ MarkActive(id)
    /\ UNCHANGED <<bootVars, mutations, client, instVars, probe>>

\* The window is resized: the container takes a new size and every resize
\* listener runs.
Resize(size) ==
    /\ dispatching = 0
    /\ client' = size
    /\ \E self \in {IF resizeListeners > 0 THEN onResize(Self, size) ELSE Self} :
           /\ self.nextAnim <= MaxAnims
           /\ Commit(self)
           /\ lastCall' = [op |-> "resize",
                           lookups |-> self.lookups,
                           removes |-> self.removes,
                           cancelled |-> self.cancelled,
                           starts |-> self.starts]
    /\ UNCHANGED <<bootVars, imgs, divs, mutations, instVars, probe>>

\* The tween engine plays a running animation to the end of its last
\* keyframe: the animation is finished and leaves the engine.
Tick(a) ==
    /\ dispatching = 0
    /\ a \in anims
    /\ anims' = anims \ {a}
    /\ UNCHANGED <<bootVars, imgs, divs, mutations, client, instVars, _areas,
                   _currentFrame, _duration, animeInstance, nextAnim, parses,
                   lastCall, probe>>

\* Another script of the page rewrites the width of a frame element.
DomMutate(i, text) ==
    /\ dispatching = 0
    /\ mutations < MaxMutations
    /\ i \in 1..Len(divs)
    /\ divs[i].style.width # text
    /\ divs' = [divs EXCEPT ![i].style.width = text]
    /\ mutations' = mutations + 1
    /\ lastCall' = [NoCall EXCEPT !.op = "mutate"]
    /\ UNCHANGED <<bootVars, imgs, client, instVars, selfVars, probe>>

Next ==
    \/ EvalScript
    \/ DOMContentLoaded
    \/ DispatchListener
    \/ TimerFire
    \/ \E call \in Calls : SetActiveFrame(call.id, call.dur)
    \/ \E size \in ClientSizes : Resize(size)
    \/ \E a \in anims : Tick(a)
    \/ \E i \in MutableDivs, text \in MutationTexts : DomMutate(i, text)

Spec == Init /\ [][Next]_vars

\* ------------------------------------------------------------------------
\* The geometry functions on their own: the frames, canvases and container
\* sizes they are applied to.
ProbeLefts == { 0, 100 }
ProbeTops == { 0, 200 }
ProbeWidths == { 0, 400, 480, 500 }
ProbeHeights == { 0, 480, 700, 1750 }
ProbeFrames ==
    { [left |-> Num(l), top |-> Num(t), width |-> Num(w), height |-> Num(h)] :
        l \in ProbeLefts, t \in ProbeTops, w \in ProbeWidths, h \in ProbeHeights }
ProbeCanvases ==
    { [width |-> Num(1000), height |-> Num(2000)], NoSize }
ProbeSizes ==
    { [w |-> 500, h |-> 500], [w |-> 400, h |-> 400], [w |-> 20, h |-> 20],
      [w |-> 0, h |-> 0] }

\* An instance whose canvas is canvasSize and whose container has the given
\* size computes position, scale and panning decisions of a frame.
Probe(frame, canvasSize, size) ==
    /\ ~probe.on
    /\ probe' = [on |-> TRUE, frame |-> frame, canvas |-> canvasSize,
                 size |-> size,
                 scale |-> CalcScale(makeFramePosition(frame), size.w, size.h),
                 result |-> calcFramePositionAndSize(makeFramePosition(frame),
                                                     canvasSize, size.w, size.h),
                 vertical |-> shouldDoVerticalPanning(makeFramePosition(frame),
                                                      size.h),
                 horizontal |-> shouldDoHorizontalPanning(makeFramePosition(frame),
                                                          size.w)]
    /\ UNCHANGED <<bootVars, imgs, divs, mutations, client, instVars, selfVars,
                   lastCall>>

InitGeom ==
    /\ Init
    /\ readyState = "loading"
    /\ Len(imgs) = 0
    /\ client = [w |-> 500, h |-> 500]

NextGeom ==
    \E frame \in ProbeFrames, canvasSize \in ProbeCanvases, size \in ProbeSizes :
        Probe(frame, canvasSize, size)

SpecGeom == InitGeom /\ [][NextGeom]_vars

\* ------------------------------------------------------------------------
\* The viewer on pages whose image and frame elements declare the range of
\* style values getPropertyValue can return (a length, nothing, a keyword, a
\* negative offset) and whose second frame is wide and has a numeric id.
Auto == <<"a", "u", "t", "o">>
PxMinus50 == <<"-", "5", "0", "p", "x">>
Id4 == <<"4">>

PageImgs ==
    { Img(IdPage, w, h) : w \in {Px1000, NoText, Auto}, h \in {Px2000, Auto} }
PageFrames ==
    { Div(IdF1, Style(l, Px0, w, h)) :
        l \in {Px0, PxMinus50}, w \in {Px500, NoText, Auto}, h \in {Px1750, Auto} }
WideDiv == Div(Id4, Style(Px0, Px0, Px1750, Px500))
PageDocuments ==
    { [imgs |-> <<i>>, divs |-> <<f, WideDiv>>] : i \in PageImgs, f \in PageFrames }
PageCalls ==
    { Call(IdF1, 2000), Call(Hash \o Id4, 2000), Call(IdPage, 1000) }

\* The document is complete when the script is added, as in the reader
\* controls' iframeLoaded.
InitPages ==
    /\ readyState = "complete"
    /\ evals = 0
    /\ installed = FALSE
    /\ listeners = 0
    /\ timers = 0
    /\ dispatching = 0
    /\ \E doc \in PageDocuments : imgs = doc.imgs /\ divs = doc.divs
    /\ mutations = 0
    /\ client = [w |-> 500, h |-> 500]
    /\ comicBookPage = FALSE
    /\ constructed = 0
    /\ resizeListeners = 0
    /\ _comicImg = 0
    /\ _canvasSize = NoSize
    /\ _areas = Undefined
    /\ _currentFrame = Undefined
    /\ _duration = Undefined
    /\ animeInstance = Undefined
    /\ anims = {}
    /\ nextAnim = 0
    /\ parses = 0
    /\ lastCall = NoCall
    /\ probe = NoProbe

NextPages ==
    \/ EvalScript
    \/ TimerFire
    \/ \E call \in PageCalls : SetActiveFrame(call.id, call.dur)

SpecPages == InitPages /\ [][NextPages]_vars

\* ------------------------------------------------------------------------
\* Properties.

\* The registry a read of comicAreas returns in the current state.
Registry == IF IsDefined(_areas) THEN Val(_areas) ELSE MapOf(AreaEntries)

RunningOn(i) == {a \in anims : a.target = i}

\* C1: SetCurrentFrame with an id whose lowercased form is not a key of the
\* registry changes neither the current frame nor the stored duration,
\* removes no running animation and does not call the tween engine.
C1_UnknownIdIsNoOp ==
    [][\A call \in Calls :
          (/\ comicBookPage
           /\ toLocaleLowerCase(call.id) \notin DOMAIN Registry
           /\ SetActiveFrame(call.id, call.dur))
          => /\ _currentFrame' = _currentFrame
             /\ _duration' = _duration
             /\ anims' = anims
             /\ nextAnim' = nextAnim
             /\ animeInstance' = animeInstance
             /\ lastCall'.removes = 0
             /\ lastCall'.starts = 0]_vars

\* An unknown id was requested while an activated frame was animating.
C1_Witness ==
    /\ lastCall.op = "SetActiveFrame"
    /\ lastCall.lookups = 1
    /\ lastCall.starts = 0
    /\ IsDefined(_currentFrame)
    /\ anims # {}

\* C2: at most one animation runs on an image, and a running animation is
\* the one the most recent render started.
C2_OneAnimationLastWins ==
    /\ \A i \in 1..Len(imgs) : Cardinality(RunningOn(i)) <= 1
    /\ \A a \in anims : a.id = nextAnim /\ animeInstance = Some(a.id)

\* A render ended the animation in flight and its own animation runs.
C2_Witness ==
    /\ lastCall.cancelled = 1
    /\ nextAnim >= 2
    /\ Cardinality(anims) = 1

\* C3: a resize changes neither the current frame nor the duration and does
\* not read the registry; with a frame activated it starts exactly one
\* animation, computed from that frame and duration and the new container
\* size; without one it starts and removes nothing.
C3_ResizeRerenders ==
    [][\A size \in ClientSizes :
          Resize(size)
          => /\ _currentFrame' = _currentFrame
             /\ _duration' = _duration
             /\ _areas' = _areas
             /\ parses' = parses
             /\ lastCall'.lookups = 0
             /\ IF IsDefined(_currentFrame)
                THEN /\ nextAnim' = nextAnim + 1
                     /\ lastCall'.starts = 1
                     /\ anims' \ anims =
                          {Anime(nextAnim', _comicImg,
                                 RenderKeyframes(
                                     RenderPositions(Val(_currentFrame), size.w, size.h),
                                     _duration, _canvasSize, size.w, size.h),
                                 RenderPositions(Val(_currentFrame), size.w, size.h))}
                ELSE /\ anims' = anims
                     /\ nextAnim' = nextAnim
                     /\ lastCall'.starts = 0
                     /\ lastCall'.removes = 0]_vars

\* A resize to another container size re-rendered the activated frame.
C3_Witness ==
    /\ lastCall.op = "resize"
    /\ lastCall.starts = 1
    /\ IsDefined(_currentFrame)
    /\ \E a \in anims : a.id = nextAnim /\ nextAnim >= 2

\* C4: a frame element's id finds its frame in any upper/lower-case
\* variant, with or without a leading "#": a call whose lowercased id equals
\* the lowercased form of a registry key makes that key's frame the current
\* frame.
C4_CaseInsensitiveLookup ==
    [][\A call \in Calls :
          (comicBookPage /\ SetActiveFrame(call.id, call.dur))
          => \A key \in DOMAIN Registry :
                 toLocaleLowerCase(key) = toLocaleLowerCase(call.id)
                 => /\ _currentFrame' = Some(Registry[key])
                    /\ _duration' = Some(call.dur)]_vars

\* C5: at most one ComicBookPage is constructed and at most one resize
\* listener added per window, and once window.comicBookPage is set no Setup
\* replaces it.
C5_SingleInstance ==
    /\ [](constructed <= 1 /\ resizeListeners <= 1)
    /\ [][comicBookPage
          => /\ comicBookPage'
             /\ constructed' = constructed
             /\ resizeListeners' = resizeListeners
             /\ _comicImg' = _comicImg
             /\ _canvasSize' = _canvasSize]_vars

\* The script was evaluated twice and both of its Setup calls have run.
C5_Witness ==
    /\ comicBookPage
    /\ constructed = 1
    /\ evals = 2
    /\ timers = 0
    /\ dispatching = 0
    /\ readyState = "complete"

\* The positions C6 names for a frame: the full frame, the top sub-frame
\* (height set to the width) and that sub-frame moved down by
\* height - width + 10.
C6_Expected(frame) ==
    LET corner(w, h) == [x |-> RAdd(frame.left, w), y |-> RAdd(frame.top, h)]
        full == [width |-> frame.width, height |-> frame.height,
                 topLeft |-> [x |-> frame.left, y |-> frame.top],
                 bottomRight |-> corner(frame.width, frame.height)]
        top == [width |-> frame.width, height |-> frame.width,
                topLeft |-> [x |-> frame.left, y |-> frame.top],
                bottomRight |-> corner(frame.width, frame.width)]
        down == RAdd(frame.top,
                     RAdd(RSub(frame.height, frame.width), Num(10)))
    IN  <<full, top, [top EXCEPT !.topLeft = [x |-> frame.left, y |-> down]]>>

C6_Scenario ==
    /\ _canvasSize = [width |-> Num(1000), height |-> Num(2000)]
    /\ _currentFrame = Some([left |-> Num(0), top |-> Num(0),
                             width |-> Num(500), height |-> Num(1750)])
    /\ client = [w |-> 500, h |-> 500]

C8_FinalDurationIsRemainder ==
    \A a \in anims :
        Len(a.keyframes) = 3
        => a.keyframes[3].duration = Val(_duration) - 2 * 750

\* The frame of the probe has a height/width ratio of exactly 1.75.
C7_RatioIsFactor ==
    /\ probe.frame.width.n > 0
    /\ 4 * probe.frame.height.n = 7 * probe.frame.width.n

\* C7 as stated: a frame whose height/width ratio is exactly 1.75 and whose
\* height is exactly containerHeight * 1.75 triggers vertical panning.
C7_BoundaryPans ==
    (/\ probe.on
     /\ C7_RatioIsFactor
     /\ 4 * probe.frame.height.n = 7 * probe.size.h)
    => probe.vertical

\* C7 amended: a frame whose height/width ratio is exactly 1.75 triggers
\* vertical panning exactly when its height is strictly greater than
\* containerHeight * 1.75; at height = containerHeight * 1.75 it does not.
C7_BoundaryStrict ==
    (probe.on /\ C7_RatioIsFactor)
    => (probe.vertical <=> 4 * probe.frame.height.n > 7 * probe.size.h)

\* A frame of 400 x 700 was probed in a container of height 400.
C7_Witness ==
    /\ probe.on
    /\ C7_RatioIsFactor
    /\ 4 * probe.frame.height.n = 7 * probe.size.h
    /\ ~probe.vertical

\* The frame of the probe lies fully inside the canvas of the probe.
C9_FrameInsideCanvas ==
    LET f == probe.frame
    IN  /\ f.left.n >= 0 /\ f.top.n >= 0 /\ f.width.n >= 0 /\ f.height.n >= 0
        /\ f.left.n + f.width.n <= probe.canvas.width.n
        /\ f.top.n + f.height.n <= probe.canvas.height.n

\* C9: for a frame fully inside the canvas and any container size the scale
\* is at most 3, and the returned width and height are at most 3 times the
\* canvas width and height.
C9_ScaleAtMostMaxZoom ==
    (probe.on /\ C9_FrameInsideCanvas)
    => /\ RLe(probe.scale, Num(3))
       /\ RLe(probe.result.width, RMul(Num(3), probe.canvas.width))
       /\ RLe(probe.result.height, RMul(Num(3), probe.canvas.height))

\* C10: the registry is parsed from the document at most once; once read it
\* stays the same mapping whatever happens to the document, and the canvas
\* size does not change after construction.
C10_ExtractOnce ==
    /\ [](parses <= 1)
    /\ [][/\ IsDefined(_areas) => _areas' = _areas
          /\ comicBookPage => _canvasSize' = _canvasSize]_vars

\* The registry was read after a frame element changed, and still holds the
\* frame parsed before the change.
C10_Witness ==
    /\ lastCall.op = "SetActiveFrame"
    /\ lastCall.lookups >= 1
    /\ mutations > 0
    /\ parses = 1
    /\ IsDefined(_areas)
    /\ Val(_areas) # MapOf(AreaEntries)

\* C11: the canvas size extractCanvasSize computed and wrote to the image's
\* cache attribute is, field by field, the canvas size extractCanvasSize
\* reads back from that attribute.
C11_CacheRoundTrip ==
    comicBookPage => extractCanvasSize(imgs[_comicImg]) = _canvasSize

\* The elements that carry the "active" class.
ActiveElements ==
    {<<"img", i>> : i \in {j \in 1..Len(imgs) : imgs[j].active}} \cup
    {<<"div", i>> : i \in {j \in 1..Len(divs) : divs[j].active}}

\* The elements whose id is name.
ElementsWithId(name) ==
    {<<"img", i>> : i \in {j \in 1..Len(imgs) : imgs[j].id = name}} \cup
    {<<"div", i>> : i \in {j \in 1..Len(divs) : divs[j].id = name}}

\* C12: after a window.SetActiveFrame(id, duration) call at most one element
\* carries "active"; a marked element has the id that is id without "#", and
\* one is marked whenever an element with that id exists.
C12_OneActiveMarker ==
    [][\A call \in PageCalls :
          SetActiveFrame(call.id, call.dur)
          => LET name == SelectSeq(call.id, LAMBDA c : c # "#")
             IN  /\ Cardinality(ActiveElements') <= 1
                 /\ ActiveElements' \subseteq ElementsWithId(name)
                 /\ ElementsWithId(name) # {} => ActiveElements' # {}]_vars

\* The centering offset C13 names for one axis.
C13_Offset(available, scaledFrameSize) ==
    IF RLt(scaledFrameSize, available)
    THEN RDiv(RSub(available, scaledFrameSize), Num(2))
    ELSE Num(0)

\* The frame of the probe is as wide and as high as the container without
\* its padding of 2 * 10.
C13_ExactFit ==
    /\ probe.frame.width = Num(probe.size.w - 2 * 10)
    /\ probe.frame.height = Num(probe.size.h - 2 * 10)

\* The offsets of the result are the centering offsets C13 names, minus the
\* scaled frame origin, plus the padding.
C13_CenteringRule ==
    probe.on
    => /\ probe.result.left =
              RAdd(RAdd(C13_Offset(Num(probe.size.w - 2 * 10),
                                   RMul(probe.frame.width, probe.scale)),
                        RNeg(RMul(probe.frame.left, probe.scale))),
                   Num(10))
       /\ probe.result.top =
              RAdd(RAdd(C13_Offset(Num(probe.size.h - 2 * 10),
                                   RMul(probe.frame.height, probe.scale)),
                        RNeg(RMul(probe.frame.top, probe.scale))),
                   Num(10))

\* C13: a frame as large as the container without its padding is shown at
\* scale 1 without centering offset, at top = 10 - frame.top and
\* left = 10 - frame.left; in general the centering offset of an axis is
\* (available - scaledFrameSize) / 2 when the scaled frame is smaller than
\* the available size and 0 otherwise.
C13_ExactFitIsUncentered ==
    /\ (probe.on /\ C13_ExactFit)
       => /\ probe.scale = Num(1)
          /\ probe.result.top = RSub(Num(10), probe.frame.top)
          /\ probe.result.left = RSub(Num(10), probe.frame.left)
    /\ C13_CenteringRule

\* C14: a running animation has exactly 1 or exactly 3 keyframes; the first
\* is the full current frame with duration 750 and opacity 1; there are 3
\* exactly when the vertical or the horizontal panning condition holds; the
\* two conditions never hold together, a frame that meets the vertical
\* condition is moved along y only and any other panned frame along x only.
C14_OneOrThreeKeyframes ==
    \A a \in anims :
        LET full == makeFramePosition(Val(_currentFrame))
            vertical == shouldDoVerticalPanning(full, client.h)
            horizontal == shouldDoHorizontalPanning(full, client.w)
        IN  /\ Len(a.keyframes) \in {1, 3}
            /\ a.positions[1] = full
            /\ a.keyframes[1] =
                   [pos |-> calcFramePositionAndSize(full, _canvasSize,
                                                     client.w, client.h),
                    duration |-> 750,
                    opacity |-> Some(1)]
            /\ Len(a.keyframes) = 3 <=> (vertical \/ horizontal)
            /\ ~(vertical /\ horizontal)
            /\ Len(a.keyframes) = 3
               => IF vertical
                  THEN /\ a.positions[3].topLeft.x = a.positions[2].topLeft.x
                       /\ a.positions[3].topLeft.y # a.positions[2].topLeft.y
                  ELSE /\ a.positions[3].topLeft.y = a.positions[2].topLeft.y
                       /\ a.positions[3].topLeft.x # a.positions[2].topLeft.x

\* A frame that meets the horizontal condition only is animating with 3
\* keyframes.
C14_Witness ==
    \E a \in anims :
        /\ Len(a.keyframes) = 3
        /\ shouldDoHorizontalPanning(makeFramePosition(Val(_currentFrame)), client.w)
        /\ ~shouldDoVerticalPanning(makeFramePosition(Val(_currentFrame)), client.h)
        /\ a.positions[3].topLeft.x # a.positions[2].topLeft.x

\* C15: every key of the frame registry maps to a rectangle whose left, top,
\* width and height are numbers, with width and height not negative.
C15_ValidRectangles ==
    IsDefined(_areas)
    => \A key \in DOMAIN Val(_areas) :
           LET frame == Val(_areas)[key]
           IN  /\ frame.left.k = "num"
               /\ frame.top.k = "num"
               /\ frame.width.k = "num" /\ frame.width.n >= 0
               /\ frame.height.k = "num" /\ frame.height.n >= 0

\* The keys of the registry the viewer of this document has, or will have
\* once the pending Setup has constructed it.
C16_RegisteredKeys ==
    LET i == IF comicBookPage THEN _comicImg ELSE QueryBodyImg
    IN  IF i = 0 THEN {}
        ELSE {imgs[i].id, Hash \o imgs[i].id} \cup
             {divs[j].id : j \in 1..Len(divs)} \cup
             {Hash \o divs[j].id : j \in 1..Len(divs)}

\* C16: every window.SetActiveFrame(id, duration) call made after the script
\* was evaluated, with an id SetCurrentFrame finds in the registry, sets the
\* current frame and the duration, also while the construction of the
\* viewer is still pending on the timer or on DOMContentLoaded.
C16_NoActivationLost ==
    [][\A call \in Calls :
          (/\ installed
           /\ toLocaleLowerCase(call.id) \in C16_RegisteredKeys
           /\ SetActiveFrame(call.id, call.dur))
          => /\ IsDefined(_currentFrame')
             /\ _duration' = Some(call.dur)
             /\ comicBookPage
                => _currentFrame' = Some(Registry[toLocaleLowerCase(call.id)])]_vars

\* The id of an element of ActiveElements.
ElementId(e) == IF e[1] = "img" THEN imgs[e[2]].id ELSE divs[e[2]].id

\* C17: whenever a current frame is set, exactly one element carries
\* "active" and the current frame is the frame the registry holds for that
\* element; a window.SetActiveFrame call that leaves the current frame
\* unchanged leaves the marked elements unchanged.
C17_MarkerFollowsFrame ==
    /\ [](IsDefined(_currentFrame)
          => /\ Cardinality(ActiveElements) = 1
             /\ \A e \in ActiveElements :
                    /\ ElementId(e) \in DOMAIN Val(_areas)
                    /\ Val(_areas)[ElementId(e)] = Val(_currentFrame))
    /\ [][\A call \in Calls :
             (SetActiveFrame(call.id, call.dur) /\ _currentFrame' = _currentFrame)
             => ActiveElements' = ActiveElements]_vars

\* C18: the current frame and the duration are both unset or both set, a set
\* current frame is one of the frames of the registry, and a step changes
\* either field only as a successful SetCurrentFrame, which writes both.
C18_FrameAndDurationTogether ==
    /\ [](/\ IsDefined(_currentFrame) <=> IsDefined(_duration)
          /\ IsDefined(_currentFrame)
             => /\ IsDefined(_areas)
                /\ \E key \in DOMAIN Val(_areas) :
                       Val(_areas)[key] = Val(_currentFrame))
    /\ [][(_currentFrame' # _currentFrame \/ _duration' # _duration)
          => \E call \in Calls :
                 /\ comicBookPage
                 /\ toLocaleLowerCase(call.id) \in DOMAIN Registry
                 /\ SetActiveFrame(call.id, call.dur)
                 /\ _currentFrame' = Some(Registry[toLocaleLowerCase(call.id)])
                 /\ _duration' = Some(call.dur)]_vars

\* A successful activation wrote frame and duration after an earlier render.
C18_Witness ==
    /\ lastCall.op = "SetActiveFrame"
    /\ lastCall.starts = 1
    /\ nextAnim >= 2
    /\ _duration = Some(1000)
    /\ IsDefined(_currentFrame)

====
